---- MODULE Spec2Model ----
(***************************************************************************)
(* Model of homework.py: the polling loop of main() and the functions it   *)
(* calls (check_tokens, get_api_answer, check_response, parse_status,      *)
(* send_message), together with APIStatusError.__str__ of exceptions.py.   *)
(*                                                                         *)
(* The texts of the program are Russian; the strings below are ASCII       *)
(* renderings of them (the source text is quoted in the comments).  Only   *)
(* equality of texts matters to the program.                               *)
(***************************************************************************)
EXTENDS Integers, Sequences, FiniteSets, TLC

VARIABLES
    env,          \* the globals PRACTICUM_TOKEN, TELEGRAM_TOKEN, TELEGRAM_CHAT_ID
    pc,           \* position of main()
    clock,        \* time.time()
    timestamp,    \* main's local timestamp
    old_message,  \* main's local old_message
    new_message,  \* main's local new_message
    response,     \* main's local response
    homework,     \* main's local homework
    error,        \* the exception being handled by the try statement
    exit,         \* the uncaught exception propagating out of the try statement or main()
    \* ---- observations of the run (not program state) ----
    apiCalls,     \* number of requests.get calls made so far
    sends,        \* the bot.send_message calls of the current iteration
    parsed,       \* parse_status was invoked in the current iteration
    empty,        \* the current iteration got a valid response with no homeworks
    raised,       \* what the fetch/validate/extract part raised in this iteration
    old0,         \* old_message when the current iteration began
    sleeps,       \* time.sleep calls since the last request to the review API
    delivered,    \* text of the most recent bot.send_message that returned
    derived,      \* the status message parse_status returned in this iteration
    lastStatus,   \* most recent status message that was delivered
    repeats,      \* deliveries of lastStatus since another status message was delivered
    run,          \* the current run of consecutive iterations deriving one message
    prev          \* summary of the previous iteration

vars == <<env, pc, clock, timestamp, old_message, new_message, response,
          homework, error, exit, apiCalls, sends, parsed, empty, raised,
          old0, sleeps, delivered, derived, lastStatus, repeats, run, prev>>

(***************************************************************************)
(* Bounds of the model.                                                    *)
(***************************************************************************)
MaxPolls == 3        \* iterations of the while loop that are explored
MaxHomeworks == 1    \* longest "homeworks" list in an API response
StartTime == 1000    \* time.time() when main() starts

(***************************************************************************)
(* Module-level constants of homework.py.                                  *)
(***************************************************************************)
REQUIRED_TOKENS == <<"PRACTICUM_TOKEN", "TELEGRAM_TOKEN", "TELEGRAM_CHAT_ID">>

REQUIRED_API_KEYS == <<"homework_name", "status">>

RETRY_PERIOD == 600

\* 'Работа проверена: ревьюеру всё понравилось. Ура!' etc.
HOMEWORK_VERDICTS ==
    [approved  |-> "Work checked: the reviewer liked everything. Hooray!",
     reviewing |-> "Work taken for review by the reviewer.",
     rejected  |-> "Work checked: the reviewer has remarks."]

(***************************************************************************)
(* Python values.                                                          *)
(***************************************************************************)
\* os.getenv gives None (here <<>>) or a string s (here <<s>>).
None == <<>>

Truthy(v) == v # None /\ v[1] # ""

Range(s) == {s[i] : i \in 1..Len(s)}

\* [x for x in list if P(x)], in list order
RECURSIVE Filter(_, _)
Filter(s, keep) ==
    IF s = <<>> THEN <<>>
    ELSE (IF Head(s) \in keep THEN <<Head(s)>> ELSE <<>>) \o Filter(Tail(s), keep)

\* ', '.join(list)
RECURSIVE Join(_)
Join(s) ==
    IF s = <<>> THEN ""
    ELSE IF Len(s) = 1 THEN s[1]
    ELSE s[1] \o ", " \o Join(Tail(s))

\* repr of a list of plain strings: ['a', 'b']
RECURSIVE ReprItems(_)
ReprItems(s) ==
    IF s = <<>> THEN ""
    ELSE IF Len(s) = 1 THEN "'" \o s[1] \o "'"
    ELSE "'" \o s[1] \o "', " \o ReprItems(Tail(s))

ReprList(s) == "[" \o ReprItems(s) \o "]"

NoError == [cls |-> "", msg |-> ""]

Raise(c, m) == [cls |-> c, msg |-> m]

(***************************************************************************)
(* Exceptions: str(error) as the f-strings of main() compute it.           *)
(***************************************************************************)
\* APIStatusError.__str__ reads the name `response`, which exceptions.py
\* never defines: evaluating it raises NameError.
StrRaises(e) == e.cls = "APIStatusError"

NameErrorOfStr == Raise("NameError", "name 'response' is not defined")

\* 'Ответ API домашки не содержит необходимые ключи {missing_keys}'
MissingKeysText(missing_keys) ==
    "Homework API response lacks the required keys " \o ReprList(missing_keys)

\* the texts of this program that contain an apostrophe and no double quote
WithApostrophe ==
    {MissingKeysText(ks) : ks \in {<<"homework_name">>, <<"status">>,
                                   <<"homework_name", "status">>}}

\* repr(str): double quotes when the text has an apostrophe and no double
\* quote, single quotes otherwise
Repr(s) == IF s \in WithApostrophe THEN "\"" \o s \o "\"" ELSE "'" \o s \o "'"

\* str(error) for the classes whose __str__ returns: KeyError gives the repr
\* of its argument, the others the argument
Str(e) == IF e.cls = "KeyError" THEN Repr(e.msg) ELSE e.msg

\* requests.exceptions.RequestException and its subclasses
RequestExceptions == {"RequestException", "requests.JSONDecodeError"}

\* the classes the first except clause and suppress() catch:
\* telebot.apihelper.ApiException, requests.exceptions.RequestException
MessagingExceptions == {"ApiException"} \cup RequestExceptions

(***************************************************************************)
(* check_tokens                                                            *)
(***************************************************************************)
\* variant: only an unset variable counts as missing, an empty one passes
missing_tokens_unset_only(e) ==
    Filter(REQUIRED_TOKENS, {name \in Range(REQUIRED_TOKENS) : e[name] = None})

missing_tokens(e) == Filter(REQUIRED_TOKENS, {name \in Range(REQUIRED_TOKENS) : ~Truthy(e[name])})

\* 'Отсутствует обязательные ременные окружения: ' + ', '.join(missing_tokens)
check_tokens(e) ==
    IF missing_tokens(e) # <<>>
    THEN Raise("ValueError",
               "Missing required environment variables: " \o Join(missing_tokens(e)))
    ELSE NoError

(***************************************************************************)
(* JSON bodies of the review API.                                          *)
(***************************************************************************)
Names == {"hw1", "hw2"}
Statuses == {"approved", "reviewing", "rejected", "unknown"}

\* a homework entry: a dict with some of the keys homework_name, status
Homeworks ==
    {[homework_name |-> n, status |-> s] : n \in Names, s \in Statuses}
    \cup {[homework_name |-> "hw1"], [status |-> "approved"], [k \in {} |-> ""]}

HomeworkLists == UNION {[1..n -> Homeworks] : n \in 0..MaxHomeworks}

NotADict == [type |-> "list", has_homeworks |-> FALSE, homeworks_type |-> "", homeworks |-> <<>>]
NoHomeworksKey == [type |-> "dict", has_homeworks |-> FALSE, homeworks_type |-> "", homeworks |-> <<>>]
HomeworksNotList == [type |-> "dict", has_homeworks |-> TRUE, homeworks_type |-> "dict", homeworks |-> <<>>]
ValidBody(hs) == [type |-> "dict", has_homeworks |-> TRUE, homeworks_type |-> "list", homeworks |-> hs]

Bodies == {NotADict, NoHomeworksKey, HomeworksNotList} \cup {ValidBody(hs) : hs \in HomeworkLists}

NoResponse == [type |-> "", has_homeworks |-> FALSE, homeworks_type |-> "", homeworks |-> <<>>]

\* what the network does with one GET: requests.get raises (net = "fail"),
\* or a response arrives with a status code and a body that is JSON or not.
\* json_error is the class response.json() raises for a body that is not
\* JSON: requests.exceptions.JSONDecodeError, a RequestException, in
\* requests >= 2.27; json.JSONDecodeError, a ValueError, before.
Replies ==
    {[net |-> "fail", status_code |-> 0, is_json |-> FALSE, json_error |-> "", body |-> NoResponse]}
    \cup {[net |-> "ok", status_code |-> 500, is_json |-> FALSE, json_error |-> "", body |-> NoResponse]}
    \cup {[net |-> "ok", status_code |-> 200, is_json |-> FALSE, json_error |-> c, body |-> NoResponse] :
             c \in {"requests.JSONDecodeError", "json.JSONDecodeError"}}
    \cup {[net |-> "ok", status_code |-> 200, is_json |-> TRUE, json_error |-> "", body |-> b] : b \in Bodies}

(***************************************************************************)
(* get_api_answer: the exception it raises (NoError if it returns) and the *)
(* value it returns.                                                       *)
(***************************************************************************)
get_api_answer(reply) ==
    IF reply.net = "fail"
    THEN \* 'Сбой запроса к API: {error}'
         [error |-> Raise("APIStatusError", "API request failure: connection error"),
          value |-> NoResponse]
    ELSE IF reply.status_code # 200
    THEN \* 'Ошибка запроса.Статус-код: ...'
         [error |-> Raise("APIStatusError", "Request error.Status code: 500."),
          value |-> NoResponse]
    ELSE IF ~reply.is_json
    THEN [error |-> Raise(reply.json_error, "Expecting value: line 1 column 1 (char 0)"),
          value |-> NoResponse]
    ELSE [error |-> NoError, value |-> reply.body]

(***************************************************************************)
(* check_response: the exception it raises, NoError if it returns.         *)
(***************************************************************************)
check_response(r) ==
    IF r.type # "dict"
    THEN \* 'Полученный тип данных ({type(response)}) не соотвествует ожидаемому (dict)'
         Raise("TypeError", "Received data type (<class '" \o r.type
                            \o "'>) does not match the expected (dict)")
    ELSE IF ~r.has_homeworks
    THEN \* 'Ключ "homeworks" отсутствует в ответе API.'
         Raise("KeyError", "Key \"homeworks\" is missing in the API response.")
    ELSE IF r.homeworks_type # "list"
    THEN Raise("TypeError", "Received data type (<class '" \o r.homeworks_type
                            \o "'>)does not match the expected (list)")
    ELSE NoError

(***************************************************************************)
(* parse_status: the exception it raises (NoError if it returns) and the   *)
(* message it returns.                                                     *)
(***************************************************************************)
missing_keys(hw) == Filter(REQUIRED_API_KEYS, {name \in Range(REQUIRED_API_KEYS) : name \notin DOMAIN hw})

\* 'Изменился статус проверки работы "{homework_name}". {verdict}'
StatusMessage(homework_name, verdict) ==
    "Changed review status of \"" \o homework_name \o "\". " \o verdict

parse_status(hw) ==
    IF missing_keys(hw) # <<>>
    THEN [error |-> Raise("KeyError", MissingKeysText(missing_keys(hw))), value |-> ""]
    ELSE IF hw.status \notin DOMAIN HOMEWORK_VERDICTS
    THEN \* 'Недокументированный статус домашней работы: {homework_status}'
         [error |-> Raise("ValueError", "Undocumented homework status: " \o hw.status),
          value |-> ""]
    ELSE [error |-> NoError,
          value |-> StatusMessage(hw.homework_name, HOMEWORK_VERDICTS[hw.status])]

\* f'Сбой в работе программы: {error}'
FailureText(e) == "Program failure: " \o Str(e)

(***************************************************************************)
(* bot.send_message: it returns ("ok") or raises.  RuntimeError stands for *)
(* any exception that is neither an ApiException nor a RequestException.   *)
(***************************************************************************)
SendResults == {"ok", "ApiException", "RequestException", "RuntimeError"}

SendError(result) == Raise(result, "send failed")

(***************************************************************************)
(* The decisions of main().                                                *)
(***************************************************************************)
\* variant: the empty list is not detected
NoHomework_never(hw) == FALSE

\* line 166: if not homework
NoHomework(hw) == hw = <<>>

\* variant: continue goes straight back to the top of the loop
AfterContinue_no_finally == "fetch"

\* line 168: continue inside try/finally runs the finally block first
AfterContinue == "finally"

\* variants: the comparison is dropped, or never lets a message through
StatusChanged_always(new, old) == TRUE

StatusChanged_never(new, old) == FALSE

\* line 171: if new_message != old_message
StatusChanged(new, old) == new # old

\* line 192: if new_message != old_message
FailureIsNew(new, old) == new # old

\* variant: the first except clause is missing
ExceptClause_generic_only(e) == "generic"

\* lines 180-188: the except clause that handles e
ExceptClause(e) == IF e.cls \in MessagingExceptions THEN "telegram" ELSE "generic"

\* lines 193-196: suppress(ApiException, RequestException)
Suppressed(e) == e.cls \in MessagingExceptions

\* variant: old_message is assigned before the send
OldAfterStatusSend_always(result, new, old) == new

\* lines 172-173: old_message after send_message(bot, new_message)
OldAfterStatusSend(result, new, old) == IF result = "ok" THEN new ELSE old

\* variant: a delivered failure text is not remembered
OldAfterFailureSend_keep(result, new, old) == old

\* lines 197-198: old_message after send_message(bot, new_message)
OldAfterFailureSend(result, new, old) == IF result = "ok" THEN new ELSE old

\* line 201 after the finally block: a pending exception propagates out of
\* main(), otherwise the while loop goes round
AfterFinally(pending) == IF pending # NoError THEN "terminated" ELSE "fetch"

(***************************************************************************)
(* Initial state: the module is imported, main() has not started.          *)
(***************************************************************************)
EnvValues == {None, <<"">>, <<"secret">>}

NoRun == [msg |-> "", ok |-> FALSE, extra |-> 0]

Init ==
    /\ env \in [Range(REQUIRED_TOKENS) -> EnvValues]
    /\ pc = "startup"
    /\ clock = StartTime
    /\ timestamp = 0
    /\ old_message = ""
    /\ new_message = ""
    /\ response = NoResponse
    /\ homework = <<>>
    /\ error = NoError
    /\ exit = NoError
    /\ apiCalls = 0
    /\ sends = <<>>
    /\ parsed = FALSE
    /\ empty = FALSE
    /\ raised = NoError
    /\ old0 = ""
    /\ sleeps = 0
    /\ delivered = ""
    /\ derived = ""
    /\ lastStatus = ""
    /\ repeats = 0
    /\ run = NoRun
    /\ prev = [derived |-> "", status_delivered |-> FALSE, failure_delivered |-> FALSE]

progVars == <<env, clock, timestamp, old_message, new_message, response, homework, error, exit>>
obsVars == <<apiCalls, sends, parsed, empty, raised, old0, sleeps, delivered,
             derived, lastStatus, repeats, run, prev>>

(***************************************************************************)
(* main(), lines 155-159: check_tokens, then the locals.                   *)
(***************************************************************************)
Startup ==
    /\ pc = "startup"
    /\ IF check_tokens(env) # NoError
       THEN /\ exit' = check_tokens(env)
            /\ pc' = "terminated"
            /\ UNCHANGED <<timestamp, old_message>>
       ELSE /\ timestamp' = clock
            /\ old_message' = ""
            /\ pc' = "fetch"
            /\ UNCHANGED exit
    /\ UNCHANGED <<env, clock, new_message, response, homework, error>>
    /\ UNCHANGED obsVars

(***************************************************************************)
(* line 163: response = get_api_answer(timestamp).  A new iteration of the *)
(* while loop begins here, so the observations of the iteration restart.   *)
(***************************************************************************)
GetApiAnswer ==
    /\ pc = "fetch"
    /\ apiCalls < MaxPolls
    /\ \E reply \in Replies :
         LET r == get_api_answer(reply) IN
         /\ IF r.error = NoError
            THEN /\ response' = r.value
                 /\ pc' = "check"
                 /\ UNCHANGED error
            ELSE /\ error' = r.error
                 /\ pc' = "except"
                 /\ UNCHANGED response
         /\ raised' = r.error
    /\ apiCalls' = apiCalls + 1
    /\ sends' = <<>>
    /\ parsed' = FALSE
    /\ empty' = FALSE
    /\ derived' = ""
    /\ old0' = old_message
    /\ sleeps' = 0
    /\ prev' = [derived |-> derived,
                 status_delivered |-> \E i \in 1..Len(sends) :
                                          sends[i].kind = "status" /\ sends[i].result = "ok",
                 failure_delivered |-> \E i \in 1..Len(sends) :
                                          sends[i].kind = "failure" /\ sends[i].result = "ok"]
    /\ UNCHANGED <<env, clock, timestamp, old_message, new_message, homework, exit>>
    /\ UNCHANGED <<delivered, lastStatus, repeats, run>>

(***************************************************************************)
(* line 164: check_response(response)                                      *)
(***************************************************************************)
CheckResponse ==
    /\ pc = "check"
    /\ IF check_response(response) = NoError
       THEN /\ pc' = "homework"
            /\ UNCHANGED <<error, raised>>
       ELSE /\ error' = check_response(response)
            /\ raised' = check_response(response)
            /\ pc' = "except"
    /\ UNCHANGED <<env, clock, timestamp, old_message, new_message, response, homework, exit>>
    /\ UNCHANGED <<apiCalls, sends, parsed, empty, old0, sleeps, delivered,
                   derived, lastStatus, repeats, run, prev>>

(***************************************************************************)
(* lines 165-168: homework = response['homeworks']; an empty list ends the *)
(* iteration with continue.                                                *)
(***************************************************************************)
TakeHomeworks ==
    /\ pc = "homework"
    /\ homework' = response.homeworks
    /\ pc' = IF NoHomework(homework') THEN AfterContinue ELSE "parse"
    /\ empty' = (response.homeworks = <<>>)
    /\ UNCHANGED <<env, clock, timestamp, old_message, new_message, response, error, exit>>
    /\ UNCHANGED <<apiCalls, sends, parsed, raised, old0, sleeps, delivered,
                   derived, lastStatus, repeats, run, prev>>

(***************************************************************************)
(* line 170: new_message = parse_status(homework[0]).  Subscripting an     *)
(* empty list raises IndexError before parse_status is called.             *)
(***************************************************************************)
ParseStatus ==
    /\ pc = "parse"
    /\ IF homework = <<>>
       THEN /\ error' = Raise("IndexError", "list index out of range")
            /\ pc' = "except"
            /\ UNCHANGED <<new_message, parsed, raised, derived, run>>
       ELSE LET r == parse_status(homework[1]) IN
            /\ parsed' = TRUE
            /\ IF r.error = NoError
               THEN /\ new_message' = r.value
                    /\ derived' = r.value
                    /\ run' = IF prev.derived = r.value THEN run
                              ELSE [msg |-> r.value, ok |-> FALSE, extra |-> 0]
                    /\ pc' = "compare"
                    /\ UNCHANGED <<error, raised>>
               ELSE /\ error' = r.error
                    /\ raised' = r.error
                    /\ pc' = "except"
                    /\ UNCHANGED <<new_message, derived, run>>
    /\ UNCHANGED <<env, clock, timestamp, old_message, response, homework, exit>>
    /\ UNCHANGED <<apiCalls, sends, empty, old0, sleeps, delivered, lastStatus, repeats, prev>>

(***************************************************************************)
(* lines 171, 174-178: compare the derived message with old_message.       *)
(***************************************************************************)
Compare ==
    /\ pc = "compare"
    /\ pc' = IF StatusChanged(new_message, old_message) THEN "send" ELSE "finally"
    /\ UNCHANGED progVars
    /\ UNCHANGED obsVars

\* the observations a call of bot.send_message(text) leaves
Observe(kind, text, result) ==
    /\ sends' = Append(sends, [text |-> text, kind |-> kind, result |-> result])
    /\ delivered' = IF result = "ok" THEN text ELSE delivered
    /\ lastStatus' = IF result = "ok" /\ kind = "status" THEN text ELSE lastStatus
    /\ repeats' = IF result = "ok" /\ kind = "status"
                  THEN (IF text = lastStatus THEN repeats + 1 ELSE 1)
                  ELSE repeats
    /\ run' = IF derived # ""
              THEN [run EXCEPT !.extra = IF run.ok THEN @ + 1 ELSE @,
                               !.ok = @ \/ (result = "ok" /\ kind = "status")]
              ELSE run
    /\ UNCHANGED <<apiCalls, parsed, empty, raised, old0, sleeps, derived, prev>>

(***************************************************************************)
(* lines 172-173: send_message(bot, new_message); old_message = new_message*)
(***************************************************************************)
SendStatus ==
    /\ pc = "send"
    /\ \E result \in SendResults :
         /\ Observe("status", new_message, result)
         /\ old_message' = OldAfterStatusSend(result, new_message, old_message)
         /\ IF result = "ok"
            THEN pc' = "finally" /\ UNCHANGED error
            ELSE pc' = "except" /\ error' = SendError(result)
    /\ UNCHANGED <<env, clock, timestamp, new_message, response, homework, exit>>

(***************************************************************************)
(* lines 180-186: except (ApiException, RequestException): log only.       *)
(***************************************************************************)
ExceptTelegram ==
    /\ pc = "except"
    /\ ExceptClause(error) = "telegram"
    /\ error' = NoError
    /\ pc' = "finally"
    /\ UNCHANGED <<env, clock, timestamp, old_message, new_message, response, homework, exit>>
    /\ UNCHANGED obsVars

(***************************************************************************)
(* lines 188-192: except Exception: the two f-strings evaluate str(error); *)
(* when that raises, the new exception leaves the handler.                 *)
(***************************************************************************)
ExceptGeneric ==
    /\ pc = "except"
    /\ ExceptClause(error) = "generic"
    /\ IF StrRaises(error)
       THEN /\ exit' = NameErrorOfStr
            /\ pc' = "finally"
            /\ UNCHANGED new_message
       ELSE /\ new_message' = FailureText(error)
            /\ pc' = IF FailureIsNew(new_message', old_message) THEN "notify" ELSE "finally"
            /\ UNCHANGED exit
    /\ error' = NoError
    /\ UNCHANGED <<env, clock, timestamp, old_message, response, homework>>
    /\ UNCHANGED obsVars

(***************************************************************************)
(* lines 193-198: with suppress(...): send_message; old_message = ...      *)
(***************************************************************************)
SendFailure ==
    /\ pc = "notify"
    /\ \E result \in SendResults :
         /\ Observe("failure", new_message, result)
         /\ old_message' = OldAfterFailureSend(result, new_message, old_message)
         /\ exit' = IF result = "ok" \/ Suppressed(SendError(result))
                    THEN exit ELSE SendError(result)
    /\ pc' = "finally"
    /\ UNCHANGED <<env, clock, timestamp, new_message, response, homework, error>>

(***************************************************************************)
(* lines 200-201: finally: time.sleep(RETRY_PERIOD).  The locals response, *)
(* homework and new_message are dead from here on (the next iteration      *)
(* assigns each before it reads it), so the model forgets their values.    *)
(***************************************************************************)
Finally ==
    /\ pc = "finally"
    /\ clock' = clock + RETRY_PERIOD
    /\ sleeps' = sleeps + 1
    /\ pc' = AfterFinally(exit)
    /\ new_message' = ""
    /\ response' = NoResponse
    /\ homework' = <<>>
    /\ UNCHANGED <<env, timestamp, old_message, error, exit>>
    /\ UNCHANGED <<apiCalls, sends, parsed, empty, raised, old0, delivered,
                   derived, lastStatus, repeats, run, prev>>

Next ==
    \/ Startup
    \/ GetApiAnswer
    \/ CheckResponse
    \/ TakeHomeworks
    \/ ParseStatus
    \/ Compare
    \/ SendStatus
    \/ ExceptTelegram
    \/ ExceptGeneric
    \/ SendFailure
    \/ Finally

Spec == Init /\ [][Next]_vars

(***************************************************************************)
(* Vocabulary of the properties.                                           *)
(***************************************************************************)
\* the work of the current iteration is done, the sleep is still to come
Worked == pc = "finally"

\* the current iteration is over, sleep included
Ended == pc \in {"fetch", "terminated"} /\ apiCalls > 0

Handled == Worked \/ Ended

OkSends == {i \in 1..Len(sends) : sends[i].result = "ok"}

MsgFailed(i) == sends[i].result \in MessagingExceptions

MissingToken == \E name \in Range(REQUIRED_TOKENS) : ~Truthy(env[name])

\* this iteration derived a status message that differs from old_message
DerivedNew == derived # "" /\ derived # old0

\* this iteration got a valid response with an empty homeworks list
EmptyList == Handled /\ raised = NoError /\ empty

\* the exceptions the raise statements of get_api_answer, check_response and
\* parse_status raise
OwnFailure == raised.cls \in {"APIStatusError", "TypeError", "KeyError", "ValueError"}

(***************************************************************************)
(* C1: once startup has succeeded, no exception raised by get_api_answer,  *)
(* check_response or parse_status terminates the process.                  *)
(* Violated: str() of the APIStatusError raised by get_api_answer raises   *)
(* NameError inside the except block, which leaves main().                 *)
(***************************************************************************)
C1_NoFailureTerminates ==
    OwnFailure => exit = NoError /\ pc # "terminated"

(***************************************************************************)
(* C2: in every iteration in which get_api_answer, check_response or       *)
(* parse_status raised, a send of the failure text is attempted exactly    *)
(* when that text differs from old_message.                                *)
(* Violated for APIStatusError: the handler dies before any send.          *)
(***************************************************************************)
C2_FailureNotifiedIffNew ==
    (Handled /\ OwnFailure) =>
        ((FailureText(raised) # old0)
            <=> (\E i \in 1..Len(sends) :
                    sends[i].kind = "failure" /\ sends[i].text = FailureText(raised)))

(***************************************************************************)
(* C3: when two consecutive iterations derive the same status message and  *)
(* the send of the first succeeded, the second makes no send; in a run of  *)
(* consecutive iterations deriving one message no send follows the         *)
(* successful one.                                                         *)
(***************************************************************************)
C3_NoDuplicateSend ==
    /\ run.extra = 0
    /\ (derived # "" /\ derived = prev.derived /\ prev.status_delivered) => sends = <<>>

C3_Witness ==
    /\ Ended
    /\ derived # "" /\ derived = prev.derived /\ prev.status_delivered
    /\ run.ok /\ sends = <<>>

(***************************************************************************)
(* C4 as stated: an iteration that derives a status message different from *)
(* old_message makes exactly one send attempt, whatever its outcome.       *)
(* Violated when the status send raises an exception that is neither an    *)
(* ApiException nor a RequestException: the generic handler then sends the *)
(* failure text, a second attempt.                                         *)
(***************************************************************************)
C4_ExactlyOneSendAttempt ==
    (Handled /\ DerivedNew) => Len(sends) = 1

(***************************************************************************)
(* C4 amended: such an iteration makes exactly one send attempt of the     *)
(* status message, and at most one further attempt, of the failure text,   *)
(* which happens only when the status send raised an exception other than  *)
(* ApiException / RequestException.                                        *)
(***************************************************************************)
C4_OneStatusSendAttempt ==
    (Handled /\ DerivedNew) =>
        /\ Len(sends) \in {1, 2}
        /\ sends[1].kind = "status" /\ sends[1].text = derived
        /\ Len(sends) = 2 =>
              /\ sends[2].kind = "failure"
              /\ sends[1].result \notin ({"ok"} \cup MessagingExceptions)

C4_Witness ==
    /\ Handled /\ DerivedNew
    /\ Len(sends) = 2 /\ sends[1].result = "RuntimeError" /\ sends[2].kind = "failure"

(***************************************************************************)
(* C5: every iteration ends with exactly one sleep of RETRY_PERIOD after   *)
(* its work, so the review API is never called twice without a sleep in    *)
(* between.                                                                *)
(***************************************************************************)
C5_SleepEveryIteration ==
    /\ Ended => sleeps = 1
    /\ pc \notin {"startup", "fetch", "terminated"} => sleeps = 0
    /\ pc = "fetch" => clock = timestamp + apiCalls * RETRY_PERIOD

C5_Witness ==
    /\ pc = "fetch" /\ apiCalls >= 2 /\ sleeps = 1
    /\ EmptyList
    /\ clock = StartTime + apiCalls * RETRY_PERIOD

(***************************************************************************)
(* C6: with a token unset or empty, check_tokens raises and the process    *)
(* terminates with no request to the review API or the messaging API and   *)
(* without entering the loop; with all three non-empty the loop is entered *)
(* with old_message empty.                                                 *)
(***************************************************************************)
C6_FailFastOnMissingToken ==
    /\ MissingToken =>
          /\ pc \in {"startup", "terminated"}
          /\ apiCalls = 0 /\ sends = <<>>
          /\ pc = "terminated" => exit.cls = "ValueError"
    /\ (~MissingToken /\ pc # "startup" /\ apiCalls = 0) =>
          pc = "fetch" /\ old_message = "" /\ exit = NoError

C6_Witness ==
    /\ pc = "terminated"
    /\ env["TELEGRAM_TOKEN"] = <<"">>
    /\ Truthy(env["PRACTICUM_TOKEN"]) /\ Truthy(env["TELEGRAM_CHAT_ID"])
    /\ exit.msg = "Missing required environment variables: TELEGRAM_TOKEN"

(***************************************************************************)
(* C7: old_message is empty or the text of the most recent send that       *)
(* succeeded; an iteration without a successful send leaves it unchanged.  *)
(***************************************************************************)
C7_OldMessageIsLastDelivered ==
    /\ old_message = delivered
    /\ OkSends = {} => old_message = old0
    /\ OkSends # {} => old_message = sends[CHOOSE i \in OkSends : \A j \in OkSends : j <= i].text

C7_Witness ==
    /\ Handled
    /\ sends # <<>> /\ OkSends = {}
    /\ old_message # "" /\ old_message = old0

(***************************************************************************)
(* C8: an empty homeworks list in a valid response: no send, parse_status  *)
(* not invoked, old_message unchanged, and the iteration sleeps before the *)
(* next poll.                                                              *)
(***************************************************************************)
C8_EmptyListIsSilent ==
    EmptyList =>
        /\ sends = <<>>
        /\ ~parsed
        /\ old_message = old0
        /\ exit = NoError
        /\ Ended => pc = "fetch" /\ sleeps = 1

C8_Witness ==
    /\ EmptyList /\ pc = "fetch"
    /\ old_message # ""

(***************************************************************************)
(* C9: an ApiException / RequestException of bot.send_message never ends   *)
(* the loop: no send follows it in the iteration (no failure notification  *)
(* after a failed status send), nothing propagates, the iteration sleeps   *)
(* and the loop is back at the next poll.                                  *)
(***************************************************************************)
C9_MessagingFailureIsSurvived ==
    (Handled /\ \E i \in 1..Len(sends) : MsgFailed(i)) =>
        /\ exit = NoError
        /\ \A i \in 1..Len(sends) : MsgFailed(i) => i = Len(sends)
        /\ Ended => pc = "fetch" /\ sleeps = 1

C9_Witness ==
    /\ pc = "fetch" /\ apiCalls > 0
    /\ Len(sends) = 1 /\ sends[1].kind = "status" /\ MsgFailed(1)

(***************************************************************************)
(* C10: a delivered failure text replaces old_message, so an iteration     *)
(* that follows a delivered failure notification and derives the status    *)
(* message that was delivered last sends that message again.               *)
(***************************************************************************)
C10_ResendAfterFailureText ==
    (Handled /\ derived # "" /\ derived = lastStatus /\ prev.failure_delivered) =>
        /\ sends # <<>>
        /\ sends[1].kind = "status" /\ sends[1].text = derived

C10_Witness ==
    /\ Handled
    /\ prev.failure_delivered /\ prev.derived = ""
    /\ derived = lastStatus /\ repeats = 2
    /\ sends # <<>> /\ sends[1].result = "ok"

====
